---- MODULE Spec2Model ----
(***************************************************************************)
(* Progression engine of the gamified learning journal                     *)
(* (src/hooks/useGamification.ts): the zustand store, its mutators, the    *)
(* calendar helpers and the mount effects of the useGamification hook.     *)
(*                                                                         *)
(* Time.  A Date is an instant counted in ticks, TicksPerDay ticks to a    *)
(* local calendar day; day 0 has weekday FirstWeekday (0 = Sunday, as      *)
(* Date.getDay).  An ISO date string names an instant exactly (toISOString *)
(* and new Date(string) keep millisecond precision), so a stored date      *)
(* string is the tick it names and null is Null.                           *)
(*                                                                         *)
(* Commits.  Every set() of the store is one commit that subscribers and   *)
(* the persist middleware observe.  A mutator runs to completion, so one   *)
(* action is one mutator call.  The snapshots a call commits, in order, are *)
(* given by the ...Commits operators; call is a history variable naming    *)
(* the last call, its arguments and the branch it took.                    *)
(***************************************************************************)
EXTENDS Integers, Sequences, FiniteSets

VARIABLES state, now, call

vars == <<state, now, call>>

\* ------------------------------------------------------------------ bounds
TicksPerDay == 2
MaxDay == 2
FirstWeekday == 6
MaxXP == 330
MaxFocusTotal == 90
MaxEntries == 3

LongDays == 7
HookDays == 2
HookXP == 130
HookEntries == 3
DiaryDays == 5
LevelXP == 720
MathDays == 9
MathXP == 300
MathFocusTotal == 450

Null == 0 - 999
Missing == 0 - 1

\* ------------------------------------------------------------- constants
AchievementIds == {"streak-warrior", "math-mastery", "deep-focus", "consistency-king"}
UnlockIds == {"dark-mode", "themes", "advanced-stats"}

DEFAULT_ACHIEVEMENTS ==
  [a \in AchievementIds |->
     [requirement |-> CASE a = "streak-warrior" -> 7
                        [] a = "math-mastery" -> 10
                        [] a = "deep-focus" -> 240
                        [] a = "consistency-king" -> 20,
      progress |-> 0, unlocked |-> FALSE, unlockedAt |-> Null]]

DEFAULT_UNLOCKS ==
  [u \in UnlockIds |->
     [requiredLevel |-> CASE u = "dark-mode" -> 3
                          [] u = "themes" -> 5
                          [] u = "advanced-stats" -> 7,
      unlocked |-> FALSE]]

DEFAULT_QUESTS ==
  [q \in {"weekly-entries-3", "math-tags-5", "high-focus-2-days"} |->
     CASE q = "weekly-entries-3" ->
            [target |-> 3, progress |-> 0, rewardXP |-> 50, completed |-> FALSE,
             claimed |-> FALSE, type |-> "entries", typeValue |-> "",
             resetWeekly |-> TRUE, weekStarted |-> Null]
       [] q = "math-tags-5" ->
            [target |-> 5, progress |-> 0, rewardXP |-> 75, completed |-> FALSE,
             claimed |-> FALSE, type |-> "tags", typeValue |-> "math",
             resetWeekly |-> FALSE, weekStarted |-> Null]
       [] q = "high-focus-2-days" ->
            [target |-> 2, progress |-> 0, rewardXP |-> 60, completed |-> FALSE,
             claimed |-> FALSE, type |-> "focus", typeValue |-> "",
             resetWeekly |-> TRUE, weekStarted |-> Null]]

INITIAL_STATE ==
  [xp |-> 0, totalEntries |-> 0, totalFocusMinutes |-> 0, mathTaggedEntries |-> 0,
   streak |-> 0, lastEntryDate |-> Null, longestStreak |-> 0,
   achievements |-> DEFAULT_ACHIEVEMENTS, unlocks |-> DEFAULT_UNLOCKS,
   quests |-> DEFAULT_QUESTS,
   weeklyEntriesCount |-> 0, weeklyHighFocusDays |-> 0, weekStartDate |-> Null]

\* ------------------------------------------------------- helper functions
Max(a, b) == IF a >= b THEN a ELSE b
Min(a, b) == IF a <= b THEN a ELSE b

\* mutant: levels are counted from 1
calculateLevelFromOne(xp) == xp \div 100 + 1

calculateLevel(xp) == IF xp < 100 THEN 0 ELSE xp \div 100

getXPForLevel(level) == level * 100

\* percentage is a double in the code; it is kept to the nearest integer
\* (the quotient by xpNeeded = 100 is off an integer by rounding error only)
getXPProgress(xp) ==
  LET level == calculateLevel(xp)
      currentLevelXP == getXPForLevel(level)
      nextLevelXP == getXPForLevel(level + 1)
      xpIntoLevel == xp - currentLevelXP
      xpNeeded == nextLevelXP - currentLevelXP
  IN [current |-> xpIntoLevel, required |-> xpNeeded,
      percentage |-> Min((xpIntoLevel * 100) \div xpNeeded, 100)]

\* local calendar day of an instant (year, month and day of month together)
DayOf(d) == d \div TicksPerDay

isSameDay(date1, date2) == DayOf(date1) = DayOf(date2)

\* mutant: one day apart in either direction
isYesterdayEitherWay(date1, date2) ==
  isSameDay(date1, date2 - TicksPerDay) \/ isSameDay(date1, date2 + TicksPerDay)

isYesterday(date1, date2) ==
  LET yesterday == date2 - TicksPerDay
  IN isSameDay(date1, yesterday)

getDay(d) == (DayOf(d) + FirstWeekday) % 7

\* mutant: the week starts on Sunday
getWeekStartSunday(date) ==
  LET day == getDay(date)
      diff == DayOf(date) - day
  IN diff * TicksPerDay

getWeekStart(date) ==
  LET day == getDay(date)
      diff == DayOf(date) - day + (IF day = 0 THEN 0 - 6 ELSE 1)
  IN diff * TicksPerDay

isSameWeek(date, reference) ==
  LET weekStart1 == getWeekStart(date)
      weekStart2 == getWeekStart(reference)
  IN isSameDay(weekStart1, weekStart2)

\* mutant: any later day continues the streak
calculateStreakAnyLaterDay(lastEntryDate, currentStreak, entryDate) ==
  IF lastEntryDate = Null
  THEN [newStreak |-> 1, isNewDay |-> TRUE]
  ELSE IF isSameDay(lastEntryDate, entryDate)
  THEN [newStreak |-> currentStreak, isNewDay |-> FALSE]
  ELSE IF entryDate > lastEntryDate
  THEN [newStreak |-> currentStreak + 1, isNewDay |-> TRUE]
  ELSE [newStreak |-> 1, isNewDay |-> TRUE]

\* mutant: a second entry of the day counts as a new day
calculateStreakEveryEntry(lastEntryDate, currentStreak, entryDate) ==
  IF lastEntryDate = Null
  THEN [newStreak |-> 1, isNewDay |-> TRUE]
  ELSE IF isSameDay(lastEntryDate, entryDate)
  THEN [newStreak |-> currentStreak, isNewDay |-> TRUE]
  ELSE IF isYesterday(lastEntryDate, entryDate)
  THEN [newStreak |-> currentStreak + 1, isNewDay |-> TRUE]
  ELSE [newStreak |-> 1, isNewDay |-> TRUE]

calculateStreak(lastEntryDate, currentStreak, entryDate) ==
  IF lastEntryDate = Null
  THEN [newStreak |-> 1, isNewDay |-> TRUE]
  ELSE IF isSameDay(lastEntryDate, entryDate)
  THEN [newStreak |-> currentStreak, isNewDay |-> FALSE]
  ELSE IF isYesterday(lastEntryDate, entryDate)
  THEN [newStreak |-> currentStreak + 1, isNewDay |-> TRUE]
  ELSE [newStreak |-> 1, isNewDay |-> TRUE]

AchievementCounter(a, st) ==
  CASE a = "streak-warrior" -> st.streak
    [] a = "math-mastery" -> st.mathTaggedEntries
    [] a = "deep-focus" -> st.totalFocusMinutes
    [] a = "consistency-king" -> st.totalEntries

\* mutant: the thresholds of math-mastery and consistency-king are swapped
AchievementThresholdSwapped(a) ==
  CASE a = "streak-warrior" -> 7
    [] a = "math-mastery" -> 20
    [] a = "deep-focus" -> 240
    [] a = "consistency-king" -> 10

AchievementThreshold(a) ==
  CASE a = "streak-warrior" -> 7
    [] a = "math-mastery" -> 10
    [] a = "deep-focus" -> 240
    [] a = "consistency-king" -> 20

\* mutant: unlocked achievements are recomputed too
updateAchievementsRecomputed(achievements, st, clock) ==
  [a \in AchievementIds |->
     [achievements[a] EXCEPT
        !.progress = AchievementCounter(a, st),
        !.unlocked = AchievementCounter(a, st) >= AchievementThreshold(a),
        !.unlockedAt = IF AchievementCounter(a, st) >= AchievementThreshold(a)
                       THEN clock ELSE Null]]

updateAchievements(achievements, st, clock) ==
  [a \in AchievementIds |->
     IF ~achievements[a].unlocked
     THEN [achievements[a] EXCEPT
             !.progress = AchievementCounter(a, st),
             !.unlocked = AchievementCounter(a, st) >= AchievementThreshold(a),
             !.unlockedAt = IF AchievementCounter(a, st) >= AchievementThreshold(a)
                            THEN clock ELSE Null]
     ELSE achievements[a]]

UnlockLevel(u) ==
  CASE u = "dark-mode" -> 3
    [] u = "themes" -> 5
    [] u = "advanced-stats" -> 7

\* mutant: a feature unlocks one level late
updateUnlocksAbove(unlocks, level) ==
  [u \in UnlockIds |->
     IF ~unlocks[u].unlocked /\ level > UnlockLevel(u)
     THEN [unlocks[u] EXCEPT !.unlocked = TRUE]
     ELSE unlocks[u]]

updateUnlocks(unlocks, level) ==
  [u \in UnlockIds |->
     IF ~unlocks[u].unlocked /\ level >= UnlockLevel(u)
     THEN [unlocks[u] EXCEPT !.unlocked = TRUE]
     ELSE unlocks[u]]

toLowerCase(str) ==
  CASE str = "Math" -> "math"
    [] str = "MATH" -> "math"
    [] str = "Tech" -> "tech"
    [] OTHER -> str

\* mutant: the minutes decide even when a focus level is given
derivedFocusLevelFromMinutes(entry) ==
  IF entry.focusMinutes # Missing /\ entry.focusMinutes # 0
  THEN (entry.focusMinutes + 3) \div 6
  ELSE IF entry.focusLevel # Missing THEN entry.focusLevel ELSE 5

\* derived focus level of an entry (lines 510 and 547)
derivedFocusLevel(entry) ==
  IF entry.focusLevel # Missing
  THEN entry.focusLevel
  ELSE IF entry.focusMinutes # Missing /\ entry.focusMinutes # 0
       THEN (entry.focusMinutes + 3) \div 6      \* Math.round(focusMinutes / 6)
       ELSE 5

\* mutant: tags are compared as written
hasTagExact(entry, name) == name \in entry.tags

hasTag(entry, name) == \E tag \in entry.tags : toLowerCase(tag) = toLowerCase(name)

\* ------------------------------------------- the store's set() callbacks
\* mutant: the amount replaces the stored xp
addXPOverwriting(s, amount) ==
  [s EXCEPT !.xp = amount,
            !.unlocks = updateUnlocks(s.unlocks, calculateLevel(amount))]

addXP(s, amount) ==
  LET newXP == s.xp + amount
      newLevel == calculateLevel(newXP)
  IN [s EXCEPT !.xp = newXP, !.unlocks = updateUnlocks(s.unlocks, newLevel)]

\* mutant: only a zero amount is ignored
addXPCommitsNonZero(s, amount) == IF amount = 0 THEN <<>> ELSE <<addXP(s, amount)>>

\* mutant: the amount is added whatever its sign
addXPCommitsUnguarded(s, amount) == <<addXP(s, amount)>>

\* the snapshots _addXP commits (lines 417-430)
addXPCommits(s, amount) == IF amount <= 0 THEN <<>> ELSE <<addXP(s, amount)>>

\* mutant: the streak record is cleared with the streak
resetStreakAndRecord(s) == [s EXCEPT !.streak = 0, !.longestStreak = 0]

resetStreak(s) == [s EXCEPT !.streak = 0]

\* mutant: the records of the journal survive a reset
resetStateKeepingRecords(s) ==
  [INITIAL_STATE EXCEPT !.longestStreak = s.longestStreak,
                        !.achievements = s.achievements]

\* set(INITIAL_STATE) of _resetState (lines 667-669)
resetStateSet(s) == INITIAL_STATE

\* mutant: the weekly reset resets every quest
resetWeeklyQuestsAll(s, clock) ==
  LET weekStart == getWeekStart(clock)
  IN IF s.weekStartDate # Null /\ ~isSameWeek(s.weekStartDate, clock)
     THEN [s EXCEPT
             !.quests = [q \in DOMAIN s.quests |->
                           [s.quests[q] EXCEPT !.progress = 0,
                                               !.completed = FALSE,
                                               !.claimed = FALSE,
                                               !.weekStarted = weekStart]],
             !.weekStartDate = weekStart,
             !.weeklyEntriesCount = 0,
             !.weeklyHighFocusDays = 0]
     ELSE [s EXCEPT !.weekStartDate = weekStart]

\* mutant: the quests are reset and the weekly counters are not
resetWeeklyQuestsKeepingCounters(s, clock) ==
  LET weekStart == getWeekStart(clock)
  IN IF s.weekStartDate # Null /\ ~isSameWeek(s.weekStartDate, clock)
     THEN [s EXCEPT
             !.quests = [q \in DOMAIN s.quests |->
                           IF s.quests[q].resetWeekly
                           THEN [s.quests[q] EXCEPT !.progress = 0,
                                                    !.completed = FALSE,
                                                    !.claimed = FALSE,
                                                    !.weekStarted = weekStart]
                           ELSE s.quests[q]],
             !.weekStartDate = weekStart]
     ELSE [s EXCEPT !.weekStartDate = weekStart]

resetWeeklyQuests(s, clock) ==
  LET weekStart == getWeekStart(clock)
  IN IF s.weekStartDate # Null /\ ~isSameWeek(s.weekStartDate, clock)
     THEN [s EXCEPT
             !.quests = [q \in DOMAIN s.quests |->
                           IF s.quests[q].resetWeekly
                           THEN [s.quests[q] EXCEPT !.progress = 0,
                                                    !.completed = FALSE,
                                                    !.claimed = FALSE,
                                                    !.weekStarted = weekStart]
                           ELSE s.quests[q]],
             !.weekStartDate = weekStart,
             !.weeklyEntriesCount = 0,
             !.weeklyHighFocusDays = 0]
     ELSE [s EXCEPT !.weekStartDate = weekStart]

\* mutant: a weekly entries quest reads the counter before its increment
questNewProgressStaleCounter(s, quest, entry, isNewDay, newWeeklyEntriesCount, newWeeklyHighFocusDays) ==
  CASE quest.type = "entries" ->
         IF quest.resetWeekly
         THEN s.weeklyEntriesCount
         ELSE s.totalEntries + (IF isNewDay THEN 1 ELSE 0)
    [] quest.type = "tags" ->
         IF quest.typeValue # "" /\ hasTag(entry, quest.typeValue) /\ isNewDay
         THEN quest.progress + 1
         ELSE quest.progress
    [] quest.type = "focus" ->
         IF quest.resetWeekly
         THEN newWeeklyHighFocusDays
         ELSE IF derivedFocusLevel(entry) >= 7 /\ isNewDay
              THEN quest.progress + 1
              ELSE quest.progress
    [] quest.type = "streak" ->
         calculateStreak(s.lastEntryDate, s.streak, entry.date).newStreak
    [] OTHER -> quest.progress

questNewProgress(s, quest, entry, isNewDay, newWeeklyEntriesCount, newWeeklyHighFocusDays) ==
  CASE quest.type = "entries" ->
         IF quest.resetWeekly
         THEN newWeeklyEntriesCount
         ELSE s.totalEntries + (IF isNewDay THEN 1 ELSE 0)
    [] quest.type = "tags" ->
         IF quest.typeValue # "" /\ hasTag(entry, quest.typeValue) /\ isNewDay
         THEN quest.progress + 1
         ELSE quest.progress
    [] quest.type = "focus" ->
         IF quest.resetWeekly
         THEN newWeeklyHighFocusDays
         ELSE IF derivedFocusLevel(entry) >= 7 /\ isNewDay
              THEN quest.progress + 1
              ELSE quest.progress
    [] quest.type = "streak" ->
         calculateStreak(s.lastEntryDate, s.streak, entry.date).newStreak
    [] OTHER -> quest.progress

updateQuests(s, entry, clock) ==
  LET entryDate == entry.date
      isNewDay == s.lastEntryDate = Null \/ ~isSameDay(s.lastEntryDate, entryDate)
      isCurrentWeek == isSameWeek(entryDate, clock)
      newWeeklyEntriesCount ==
        IF isNewDay /\ isCurrentWeek THEN s.weeklyEntriesCount + 1
                                     ELSE s.weeklyEntriesCount
      newWeeklyHighFocusDays ==
        IF isNewDay /\ isCurrentWeek /\ derivedFocusLevel(entry) >= 7
        THEN s.weeklyHighFocusDays + 1
        ELSE s.weeklyHighFocusDays
  IN [s EXCEPT
        !.quests = [q \in DOMAIN s.quests |->
                      IF s.quests[q].completed
                      THEN s.quests[q]
                      ELSE LET newProgress ==
                                 questNewProgress(s, s.quests[q], entry, isNewDay,
                                                  newWeeklyEntriesCount,
                                                  newWeeklyHighFocusDays)
                           IN [s.quests[q] EXCEPT
                                 !.progress = Min(newProgress, s.quests[q].target),
                                 !.completed = newProgress >= s.quests[q].target]],
        !.weeklyEntriesCount = newWeeklyEntriesCount,
        !.weeklyHighFocusDays = newWeeklyHighFocusDays]

\* mutant: the claim leaves the quest unmarked
claimQuestSetUnmarked(s, questId) == s

claimQuestSet(s, questId) ==
  [s EXCEPT !.quests = [s.quests EXCEPT ![questId] =
                          [s.quests[questId] EXCEPT !.claimed = TRUE]]]

\* mutant: the streak bonus is paid on every new day
entryXPRewardBonusEveryDay(s, entry, r) ==
  (IF r.isNewDay THEN 10 + r.newStreak * 2 ELSE 0)
  + (IF entry.focusMinutes # Missing /\ entry.focusMinutes # 0
     THEN entry.focusMinutes \div 5
     ELSE 0)

\* XP reward of an entry (lines 626-635)
entryXPReward(s, entry, r) ==
  (IF r.isNewDay
   THEN 10 + (IF r.newStreak > s.streak THEN r.newStreak * 2 ELSE 0)
   ELSE 0)
  + (IF entry.focusMinutes # Missing /\ entry.focusMinutes # 0
     THEN entry.focusMinutes \div 5
     ELSE 0)

\* mutants: longestStreak is left as it was; longestStreak follows the streak
nextLongestStreakStale(longestStreak, newStreak) == longestStreak

nextLongestStreakFollowing(longestStreak, newStreak) == newStreak

\* Math.max(s.longestStreak, newStreak) (line 639)
nextLongestStreak(longestStreak, newStreak) == Max(longestStreak, newStreak)

\* the main set() of _registerEntry (lines 607-661)
registerEntrySet(s, entry, clock) ==
  LET r == calculateStreak(s.lastEntryDate, s.streak, entry.date)
      newTotalEntries == IF r.isNewDay THEN s.totalEntries + 1 ELSE s.totalEntries
      hasMathTag == hasTag(entry, "math")
      newMathTaggedEntries ==
        IF hasMathTag /\ r.isNewDay THEN s.mathTaggedEntries + 1
                                    ELSE s.mathTaggedEntries
      newTotalFocusMinutes ==
        s.totalFocusMinutes + (IF entry.focusMinutes = Missing THEN 0
                                                               ELSE entry.focusMinutes)
      newXP == s.xp + entryXPReward(s, entry, r)
      newLevel == calculateLevel(newXP)
      newLongestStreak == nextLongestStreak(s.longestStreak, r.newStreak)
  IN [s EXCEPT
        !.xp = newXP,
        !.streak = r.newStreak,
        !.lastEntryDate = entry.date,
        !.longestStreak = newLongestStreak,
        !.totalEntries = newTotalEntries,
        !.mathTaggedEntries = newMathTaggedEntries,
        !.totalFocusMinutes = newTotalFocusMinutes,
        !.achievements =
           updateAchievements(s.achievements,
                              [streak |-> r.newStreak,
                               mathTaggedEntries |-> newMathTaggedEntries,
                               totalFocusMinutes |-> newTotalFocusMinutes,
                               totalEntries |-> newTotalEntries], clock),
        !.unlocks = updateUnlocks(s.unlocks, newLevel)]

\* mutant: the weekly reset check before the entry is left out
registerEntryCommitsNoReset(s, entry, clock) ==
  LET s2 == registerEntrySet(s, entry, clock)
      s3 == updateQuests(s2, entry, clock)
  IN <<s, s2, s3>>

\* the snapshots _registerEntry commits, in order (lines 601-665)
registerEntryCommits(s, entry, clock) ==
  LET s1 == resetWeeklyQuests(s, clock)
      s2 == registerEntrySet(s1, entry, clock)
      s3 == updateQuests(s2, entry, clock)
  IN <<s1, s2, s3>>

\* mutant: a quest is claimed whether or not it is completed
claimQuestCommitsUnchecked(s, questId) ==
  IF questId \notin DOMAIN s.quests \/ s.quests[questId].claimed
  THEN <<>>
  ELSE LET s1 == [s EXCEPT !.quests[questId].claimed = TRUE]
       IN <<s1, [s1 EXCEPT !.xp = s1.xp + s.quests[questId].rewardXP]>>

\* mutant: a claimed quest can be claimed again
claimQuestCommitsRepeatable(s, questId) ==
  IF questId \notin DOMAIN s.quests \/ ~s.quests[questId].completed
  THEN <<>>
  ELSE <<claimQuestSet(s, questId),
         addXP(claimQuestSet(s, questId), s.quests[questId].rewardXP)>>

\* mutant: the reward is committed before the claimed flag
claimQuestCommitsAwardFirst(s, questId) ==
  IF questId \notin DOMAIN s.quests
     \/ ~s.quests[questId].completed
     \/ s.quests[questId].claimed
  THEN <<>>
  ELSE <<addXP(s, s.quests[questId].rewardXP),
         claimQuestSet(addXP(s, s.quests[questId].rewardXP), questId)>>

\* the snapshots _claimQuest commits (lines 581-599)
claimQuestCommits(s, questId) ==
  IF questId \notin DOMAIN s.quests
     \/ ~s.quests[questId].completed
     \/ s.quests[questId].claimed
  THEN <<>>
  ELSE LET quest == s.quests[questId]
           s1 == claimQuestSet(s, questId)
       IN <<s1>> \o addXPCommits(s1, quest.rewardXP)

\* mutant: a last entry of yesterday breaks the streak too
mountStreakBrokenSinceToday(s, clock) ==
  /\ s.lastEntryDate # Null
  /\ s.streak > 0
  /\ ~isSameDay(s.lastEntryDate, clock)

\* the streak check of the mount effect (lines 872-884)
mountStreakBroken(s, clock) ==
  /\ s.lastEntryDate # Null
  /\ s.streak > 0
  /\ ~isSameDay(s.lastEntryDate, clock)
  /\ ~isSameDay(s.lastEntryDate, clock - TicksPerDay)

\* the snapshots the streak effect commits on mount (lines 872-884)
mountStreakCommits(s, clock) ==
  IF mountStreakBroken(s, clock) THEN <<resetStreak(s)>> ELSE <<>>

\* the snapshots the two mount effects commit (lines 871-889)
mountCommits(s, clock) ==
  LET streakCommits == mountStreakCommits(s, clock)
      s1 == IF streakCommits = <<>> THEN s ELSE streakCommits[1]
  IN streakCommits \o <<resetWeeklyQuests(s1, clock)>>

\* ------------------------------------------------------------------ inputs
\* An environment names the inputs the callers draw and the caps that keep
\* the counters finite: dates an entry may carry relative to the clock (days
\* back, and whether tomorrow), the kinds of entry, the addXP amounts.
LastTick(env) == (env.maxDay + 1) * TicksPerDay - 1

EntryDates(env, clock) ==
  {d \in 0..LastTick(env) : \/ d = clock
                            \/ \E k \in env.back : d = clock - k * TicksPerDay
                            \/ (env.ahead /\ d = clock + TicksPerDay)}

Entries(env, clock) ==
  {[date |-> d, tags |-> k.tags, focusMinutes |-> k.focusMinutes,
    focusLevel |-> k.focusLevel] : d \in EntryDates(env, clock), k \in env.kinds}

Plain == [tags |-> {}, focusMinutes |-> Missing, focusLevel |-> Missing]
MathDeep == [tags |-> {"Math"}, focusMinutes |-> 45, focusLevel |-> Missing]
Shallow == [tags |-> {}, focusMinutes |-> 45, focusLevel |-> 3]
Rated == [tags |-> {}, focusMinutes |-> Missing, focusLevel |-> 7]
Rounded == [tags |-> {}, focusMinutes |-> 39, focusLevel |-> Missing]
NearMiss == [tags |-> {}, focusMinutes |-> 38, focusLevel |-> Missing]

NoEntry == [date |-> Null, tags |-> {}, focusMinutes |-> Missing, focusLevel |-> Missing]

Last(commits, s) == IF commits = <<>> THEN s ELSE commits[Len(commits)]

InBounds(env, s) ==
  /\ s.xp <= env.maxXP
  /\ s.totalFocusMinutes <= env.maxFocus
  /\ s.totalEntries <= env.maxEntries
  /\ s.weeklyEntriesCount <= env.maxEntries

\* which branch of the streak calculator an entry date takes
streakCase(s, date) ==
  IF s.lastEntryDate = Null THEN "first"
  ELSE IF isSameDay(s.lastEntryDate, date) THEN "sameDay"
  ELSE IF isYesterday(s.lastEntryDate, date) THEN "nextDay"
  ELSE IF date < s.lastEntryDate THEN "backdated"
  ELSE "gap"

weekIsStale(s, clock) == s.weekStartDate # Null /\ ~isSameWeek(s.weekStartDate, clock)

\* what a reset finds: the defaults, a journal with xp, a streak record and
\* a started week, or something in between
resetCase(s) ==
  IF s = INITIAL_STATE THEN "clean"
  ELSE IF s.xp > 0 /\ s.longestStreak > 0 /\ s.weekStartDate # Null
       THEN "progressed"
       ELSE "dirty"

NoCall == [op |-> "init", entry |-> NoEntry, amount |-> 0, questId |-> "",
           case |-> "", stale |-> FALSE, days |-> {},
           paid |-> [q \in DOMAIN DEFAULT_QUESTS |-> 0]]

\* the xp that claimQuest has paid for each quest since the quest was last
\* reset, by resetState or by the weekly reset of a resetWeekly quest
paidAfter(c, commits) ==
  [q \in DOMAIN DEFAULT_QUESTS |->
     IF c.op = "resetState" THEN 0
     ELSE IF /\ c.op \in {"resetWeeklyQuests", "registerEntry", "mount"}
             /\ weekIsStale(state, now)
             /\ state.quests[q].resetWeekly
          THEN 0
     ELSE IF c.op = "claimQuest" /\ c.questId = q
          THEN call.paid[q] + (Last(commits, state).xp - state.xp)
     ELSE call.paid[q]]

\* ----------------------------------------------------------------- actions
Init ==
  /\ state = INITIAL_STATE
  /\ now = 0
  /\ call = NoCall

Commit(env, c, commits) ==
  /\ InBounds(env, Last(commits, state))
  /\ state' = Last(commits, state)
  /\ call' = [c EXCEPT !.paid = paidAfter(c, commits)]
  /\ UNCHANGED now

AddXP(env) ==
  \E amount \in env.amounts :
    Commit(env, [NoCall EXCEPT !.op = "addXP", !.amount = amount],
           addXPCommits(state, amount))

RegisterEntry(env) ==
  \E entry \in Entries(env, now) :
    Commit(env, [NoCall EXCEPT !.op = "registerEntry", !.entry = entry,
                               !.case = streakCase(state, entry.date),
                               !.stale = weekIsStale(state, now)],
           registerEntryCommits(state, entry, now))

\* registerEntry by a caller whose entry dates never go back; call.days
\* collects the calendar days that have an entry
RegisterInOrder(env) ==
  \E entry \in Entries(env, now) :
    /\ state.lastEntryDate = Null \/ entry.date >= state.lastEntryDate
    /\ Commit(env, [NoCall EXCEPT !.op = "registerEntry", !.entry = entry,
                                  !.case = streakCase(state, entry.date),
                                  !.stale = weekIsStale(state, now),
                                  !.days = call.days \cup {DayOf(entry.date)}],
              registerEntryCommits(state, entry, now))

ClaimQuest(env) ==
  \E questId \in env.questIds :
    Commit(env, [NoCall EXCEPT !.op = "claimQuest", !.questId = questId,
                               !.case = IF claimQuestCommits(state, questId) = <<>>
                                        THEN "noop" ELSE "claimed"],
           claimQuestCommits(state, questId))

ResetStreak(env) ==
  Commit(env, [NoCall EXCEPT !.op = "resetStreak"], <<resetStreak(state)>>)

ResetWeeklyQuests(env) ==
  Commit(env, [NoCall EXCEPT !.op = "resetWeeklyQuests",
                             !.stale = weekIsStale(state, now)],
         <<resetWeeklyQuests(state, now)>>)

ResetState(env) ==
  Commit(env, [NoCall EXCEPT !.op = "resetState",
                             !.case = resetCase(state)],
         <<resetStateSet(state)>>)

UpdateQuestsOnEntry(env) ==
  \E entry \in Entries(env.direct, now) :
    Commit(env, [NoCall EXCEPT !.op = "updateQuestsOnEntry", !.entry = entry,
                               !.case = streakCase(state, entry.date)],
           <<updateQuests(state, entry, now)>>)

Mount(env) ==
  Commit(env, [NoCall EXCEPT !.op = "mount",
                             !.case = IF mountStreakBroken(state, now)
                                      THEN "broken" ELSE "kept",
                             !.stale = weekIsStale(state, now)],
         mountCommits(state, now))

Tick(env) ==
  /\ now < LastTick(env)
  /\ now' = now + 1
  /\ UNCHANGED <<state, call>>

Registration ==
  [maxDay |-> MaxDay, back |-> {1, 2}, ahead |-> FALSE, kinds |-> {Plain, MathDeep},
   amounts |-> {0 - 300, 0, 300}, questIds |-> {"weekly-entries-3"},
   maxXP |-> MaxXP, maxFocus |-> MaxFocusTotal, maxEntries |-> MaxEntries]

Next ==
  \/ AddXP(Registration)
  \/ RegisterEntry(Registration)
  \/ ClaimQuest(Registration)
  \/ ResetStreak(Registration)
  \/ ResetWeeklyQuests(Registration)
  \/ ResetState(Registration)
  \/ Mount(Registration)
  \/ Tick(Registration)

Spec == Init /\ [][Next]_vars

\* Daily journaling over a longer horizon: entries carry the current time.
Daily ==
  [maxDay |-> LongDays, back |-> {}, ahead |-> FALSE, kinds |-> {Plain},
   amounts |-> {300}, questIds |-> {"no-such-quest"},
   maxXP |-> MaxXP, maxFocus |-> MaxFocusTotal, maxEntries |-> LongDays + 1]

NextLong ==
  \/ AddXP(Daily)
  \/ RegisterEntry(Daily)
  \/ ClaimQuest(Daily)
  \/ ResetStreak(Daily)
  \/ ResetWeeklyQuests(Daily)
  \/ ResetState(Daily)
  \/ Mount(Daily)
  \/ Tick(Daily)

SpecLong == Init /\ [][NextLong]_vars

\* The quest side of the hook's API, updateQuestsOnEntry included, over a few
\* days around a week boundary.
Hook ==
  [maxDay |-> HookDays, back |-> {}, ahead |-> FALSE, kinds |-> {Plain},
   direct |-> [maxDay |-> HookDays, back |-> {1}, ahead |-> FALSE,
               kinds |-> {Plain, MathDeep}],
   amounts |-> {300}, questIds |-> DOMAIN DEFAULT_QUESTS,
   maxXP |-> HookXP, maxFocus |-> MaxFocusTotal, maxEntries |-> HookEntries]

NextHook ==
  \/ RegisterEntry(Hook)
  \/ ClaimQuest(Hook)
  \/ ResetWeeklyQuests(Hook)
  \/ ResetState(Hook)
  \/ UpdateQuestsOnEntry(Hook)
  \/ Mount(Hook)
  \/ Tick(Hook)

SpecHook == Init /\ [][NextHook]_vars

\* Levelling within one day: XP in small and large steps from addXP, entries
\* and quest rewards, past the level that unlocks the last feature.
Levelling ==
  [maxDay |-> 0, back |-> {}, ahead |-> FALSE, kinds |-> {Plain},
   direct |-> [maxDay |-> 0, back |-> {}, ahead |-> FALSE, kinds |-> {MathDeep}],
   amounts |-> {0 - 1, 0, 1, 100},
   questIds |-> {"weekly-entries-3", "high-focus-2-days", "no-such-quest"},
   maxXP |-> LevelXP, maxFocus |-> MaxFocusTotal, maxEntries |-> HookEntries]

NextXP ==
  \/ AddXP(Levelling)
  \/ RegisterEntry(Levelling)
  \/ ClaimQuest(Levelling)
  \/ UpdateQuestsOnEntry(Levelling)
  \/ ResetState(Levelling)
  \/ Tick(Levelling)

SpecXP == Init /\ [][NextXP]_vars

\* Ten days of journaling with math-tagged entries of 45 focus minutes.
Studying ==
  [maxDay |-> MathDays, back |-> {}, ahead |-> FALSE, kinds |-> {MathDeep},
   amounts |-> {}, questIds |-> {},
   maxXP |-> MathXP, maxFocus |-> MathFocusTotal, maxEntries |-> MathDays + 1]

NextMath ==
  \/ RegisterEntry(Studying)
  \/ ResetState(Studying)
  \/ Tick(Studying)

SpecMath == Init /\ [][NextMath]_vars

\* Quest updates fed with entries of every focus shape, around a week
\* boundary.
Focusing ==
  [maxDay |-> HookDays, back |-> {}, ahead |-> FALSE, kinds |-> {Plain},
   direct |-> [maxDay |-> HookDays, back |-> {1}, ahead |-> FALSE,
               kinds |-> {Plain, MathDeep, Shallow, Rated, Rounded, NearMiss}],
   amounts |-> {}, questIds |-> {},
   maxXP |-> HookXP, maxFocus |-> MaxFocusTotal, maxEntries |-> HookEntries]

NextFocus ==
  \/ RegisterEntry(Focusing)
  \/ UpdateQuestsOnEntry(Focusing)
  \/ ResetWeeklyQuests(Focusing)
  \/ Tick(Focusing)

SpecFocus == Init /\ [][NextFocus]_vars

\* A journal written in date order, entries dated today or up to two days
\* back.
Diary ==
  [maxDay |-> DiaryDays, back |-> {1, 2}, ahead |-> FALSE, kinds |-> {Plain},
   amounts |-> {}, questIds |-> {},
   maxXP |-> MaxXP, maxFocus |-> MaxFocusTotal, maxEntries |-> DiaryDays + 1]

NextDiary ==
  \/ RegisterInOrder(Diary)
  \/ Tick(Diary)

SpecDiary == Init /\ [][NextDiary]_vars

\* -------------------------------------------------------------- properties
\* A step of the named mutator: the clock stands still and call' names it.
IsCall(op) == now' = now /\ call'.op = op

\* Calendar arithmetic stated on day numbers, apart from the code's helpers.
\* Day 0 lies MondayOffset days after a Monday.
MondayOffset == (FirstWeekday + 6) % 7

WeekOf(d) == (DayOf(d) + MondayOffset) \div 7

MondayOf(d) == (WeekOf(d) * 7 - MondayOffset) * TicksPerDay

FocusOf(entry) == IF entry.focusMinutes = Missing THEN 0 ELSE entry.focusMinutes

OnNewDay(last, date) == last = Null \/ DayOf(last) # DayOf(date)

ExpectedStreak(last, currentStreak, date) ==
  IF last = Null THEN 1
  ELSE IF DayOf(date) = DayOf(last) THEN currentStreak
  ELSE IF DayOf(date) = DayOf(last) + 1 THEN currentStreak + 1
  ELSE 1

\* C1: in every reachable state longestStreak >= streak.
C1_LongestAtLeastStreak == state.longestStreak >= state.streak

C1_Witness ==
  /\ call.op = "registerEntry"
  /\ call.case \in {"gap", "backdated"}
  /\ state.streak = 1
  /\ state.longestStreak >= 2

\* C2 as claimed: no mutator call, resetState included, leaves longestStreak
\* lower than it was before the call.
C2_NeverLowered ==
  [][now' = now => state'.longestStreak >= state.longestStreak]_vars

\* C2 as amended: no mutator call other than resetState leaves longestStreak
\* lower than it was before the call.
C2_LoweredOnlyByResetState ==
  [][(now' = now /\ call'.op # "resetState")
       => state'.longestStreak >= state.longestStreak]_vars

C2_Witness ==
  /\ call.op = "resetStreak"
  /\ state.streak = 0
  /\ state.longestStreak >= 2

\* C3: registerEntry on the calendar day of the stored lastEntryDate leaves
\* streak, longestStreak, totalEntries and mathTaggedEntries unchanged, adds
\* focusMinutes to totalFocusMinutes and adds exactly floor(focusMinutes/5) xp.
C3_SameDayIdempotence ==
  [][(/\ IsCall("registerEntry")
      /\ state.lastEntryDate # Null
      /\ DayOf(state.lastEntryDate) = DayOf(call'.entry.date))
       => /\ state'.streak = state.streak
          /\ state'.longestStreak = state.longestStreak
          /\ state'.totalEntries = state.totalEntries
          /\ state'.mathTaggedEntries = state.mathTaggedEntries
          /\ state'.totalFocusMinutes
               = state.totalFocusMinutes + FocusOf(call'.entry)
          /\ state'.xp = state.xp + FocusOf(call'.entry) \div 5]_vars

C3_Witness ==
  /\ call.op = "registerEntry"
  /\ call.case = "sameDay"
  /\ call.entry.focusMinutes = 45
  /\ "Math" \in call.entry.tags
  /\ state.totalEntries = 1
  /\ state.totalFocusMinutes = 90

\* C4: registerEntry of an entry on a new calendar day, dated within the
\* current week, leaves weeklyEntriesCount one above its value after the
\* call's weekly reset check, and the weekly entries quest, if not completed,
\* ends with progress = min(weeklyEntriesCount, target), above its progress
\* before the quest update.
C4_WeeklyEntryCounted ==
  [][(/\ IsCall("registerEntry")
      /\ OnNewDay(state.lastEntryDate, call'.entry.date)
      /\ WeekOf(call'.entry.date) = WeekOf(now))
       => LET before == resetWeeklyQuests(state, now)
              quest == before.quests["weekly-entries-3"]
              after == state'.quests["weekly-entries-3"]
          IN /\ state'.weeklyEntriesCount = before.weeklyEntriesCount + 1
             /\ ~quest.completed
                  => /\ after.progress
                          = Min(state'.weeklyEntriesCount, quest.target)
                     /\ after.progress > quest.progress]_vars

\* C5: every quest has 0 <= progress <= target, completed <=> progress >=
\* target, and claimed => completed.
C5_QuestInvariant ==
  \A q \in DOMAIN state.quests :
    LET quest == state.quests[q]
    IN /\ 0 <= quest.progress
       /\ quest.progress <= quest.target
       /\ quest.completed <=> quest.progress >= quest.target
       /\ quest.claimed => quest.completed

C5_Witness ==
  /\ call.op = "claimQuest"
  /\ call.case = "claimed"
  /\ state.quests[call.questId].claimed
  /\ state.quests[call.questId].progress = state.quests[call.questId].target
  /\ \E q \in DOMAIN state.quests :
       /\ state.quests[q].progress > 0
       /\ ~state.quests[q].completed

\* C6: an unlocked achievement keeps unlocked, progress and unlockedAt under
\* every call other than resetState, also when its counter has dropped below
\* the requirement.
C6_AchievementsFrozen ==
  [][\A a \in AchievementIds :
       (state.achievements[a].unlocked /\ ~IsCall("resetState"))
         => state'.achievements[a] = state.achievements[a]]_vars

C6_Witness ==
  /\ call.op = "registerEntry"
  /\ state.achievements["streak-warrior"].unlocked
  /\ state.achievements["streak-warrior"].progress = 7
  /\ state.achievements["streak-warrior"].unlockedAt # Null
  /\ state.streak < 7

\* the weekly slice of a snapshot, which the weekly reset check writes
WeeklySlice(s) ==
  <<s.quests, s.weeklyEntriesCount, s.weeklyHighFocusDays, s.weekStartDate>>

\* the slice the entry itself writes (steps 2-7)
EntrySlice(s) ==
  <<s.xp, s.streak, s.lastEntryDate, s.longestStreak, s.totalEntries,
    s.mathTaggedEntries, s.totalFocusMinutes, s.achievements, s.unlocks>>

\* C7: no snapshot committed by registerEntry holds the call's weekly reset
\* check (a changed weekly slice) without holding the entry's own updates:
\* whenever the call changes the entry slice at all, every committed snapshot
\* whose weekly slice differs from the prior state's has the final entry slice.
C7_RegisterEntryAtomic ==
  [][IsCall("registerEntry")
       => LET commits == registerEntryCommits(state, call'.entry, now)
          IN \A i \in 1..Len(commits) :
               WeeklySlice(commits[i]) # WeeklySlice(state)
                 => EntrySlice(commits[i]) = EntrySlice(state')]_vars

\* C8: resetWeeklyQuests with a stored weekStartDate of another Monday-based
\* week resets every resetWeekly quest to progress 0, not completed, not
\* claimed, weekStarted = this week's Monday 00:00, zeroes both weekly
\* counters, stores that Monday as weekStartDate, and leaves the other quests
\* as they were.
C8_WeeklyReset ==
  [][(/\ IsCall("resetWeeklyQuests")
      /\ state.weekStartDate # Null
      /\ WeekOf(state.weekStartDate) # WeekOf(now))
       => /\ \A q \in DOMAIN state.quests :
               state'.quests[q] =
                 IF state.quests[q].resetWeekly
                 THEN [state.quests[q] EXCEPT !.progress = 0,
                                              !.completed = FALSE,
                                              !.claimed = FALSE,
                                              !.weekStarted = MondayOf(now)]
                 ELSE state.quests[q]
          /\ state'.weeklyEntriesCount = 0
          /\ state'.weeklyHighFocusDays = 0
          /\ state'.weekStartDate = MondayOf(now)
          /\ DOMAIN state'.quests = DOMAIN state.quests]_vars

C8_Witness ==
  /\ call.op = "resetWeeklyQuests"
  /\ call.stale
  /\ state.weekStartDate = MondayOf(now)
  /\ state.quests["weekly-entries-3"].progress = 0
  /\ state.quests["weekly-entries-3"].weekStarted = MondayOf(now)
  /\ state.quests["math-tags-5"].progress >= 1
  /\ state.quests["math-tags-5"].weekStarted = Null

\* C9: calculateStreak returns {1, new day} for a null lastEntryDate,
\* {currentStreak, not a new day} on the same calendar day, {currentStreak+1,
\* new day} on the next calendar day and {1, new day} for every other gap,
\* earlier dates included; registerEntry commits that streak.
C9_StreakCalculator ==
  [][IsCall("registerEntry")
       => LET last == state.lastEntryDate
              date == call'.entry.date
              r == calculateStreak(last, state.streak, date)
          IN /\ r.newStreak = ExpectedStreak(last, state.streak, date)
             /\ r.isNewDay = OnNewDay(last, date)
             /\ state'.streak = ExpectedStreak(last, state.streak, date)]_vars

C9_Witness ==
  /\ call.op = "registerEntry"
  /\ call.case = "backdated"
  /\ call.entry.date < now
  /\ state.streak = 1
  /\ state.lastEntryDate = call.entry.date
  /\ state.totalEntries >= 2

CarriesMath(entry) == entry.tags \cap {"math", "Math", "MATH"} # {}

\* C11: registerEntry adds 1 to totalEntries iff the entry is on a new
\* calendar day, adds 1 to mathTaggedEntries iff it is on a new calendar day
\* and carries "math" in any letter case, and adds focusMinutes (0 if missing)
\* to totalFocusMinutes; no call other than registerEntry and resetState
\* changes these counters.
C11_EntryCounters ==
  [][/\ IsCall("registerEntry")
          => LET newDay == OnNewDay(state.lastEntryDate, call'.entry.date)
             IN /\ state'.totalEntries
                     = state.totalEntries + (IF newDay THEN 1 ELSE 0)
                /\ state'.mathTaggedEntries
                     = state.mathTaggedEntries
                         + (IF newDay /\ CarriesMath(call'.entry) THEN 1 ELSE 0)
                /\ state'.totalFocusMinutes
                     = state.totalFocusMinutes + FocusOf(call'.entry)
     /\ (now' = now /\ call'.op \notin {"registerEntry", "resetState"})
          => /\ state'.totalEntries = state.totalEntries
             /\ state'.mathTaggedEntries = state.mathTaggedEntries
             /\ state'.totalFocusMinutes = state.totalFocusMinutes]_vars

C11_Witness ==
  /\ call.op = "registerEntry"
  /\ call.case = "nextDay"
  /\ "Math" \in call.entry.tags
  /\ state.totalEntries = 2
  /\ state.mathTaggedEntries = 1
  /\ state.totalFocusMinutes = 45

\* C12: in every reachable state each feature unlock (dark-mode 3, themes 5,
\* advanced-stats 7) is unlocked exactly when floor(xp/100) >= its
\* requiredLevel, so a call that brings the level to the threshold unlocks the
\* feature before it returns; no call other than resetState locks it again.
C12_UnlocksFollowLevel ==
  /\ [](/\ state.unlocks["dark-mode"].requiredLevel = 3
        /\ state.unlocks["themes"].requiredLevel = 5
        /\ state.unlocks["advanced-stats"].requiredLevel = 7
        /\ \A u \in DOMAIN state.unlocks :
             state.unlocks[u].unlocked
               <=> state.xp \div 100 >= state.unlocks[u].requiredLevel)
  /\ [][\A u \in DOMAIN state.unlocks :
          (state.unlocks[u].unlocked /\ ~IsCall("resetState"))
            => state'.unlocks[u].unlocked]_vars

\* a quest reward of 50 has just taken xp across 500
C12_Witness ==
  /\ call.op = "claimQuest"
  /\ call.case = "claimed"
  /\ state.xp >= 500
  /\ state.xp - 50 < 500
  /\ state.unlocks["dark-mode"].unlocked
  /\ state.unlocks["themes"].unlocked
  /\ ~state.unlocks["advanced-stats"].unlocked

\* the counter and the requirement the claim maps each achievement to
MappedCounter(a, s) ==
  CASE a = "streak-warrior" -> s.streak
    [] a = "math-mastery" -> s.mathTaggedEntries
    [] a = "deep-focus" -> s.totalFocusMinutes
    [] a = "consistency-king" -> s.totalEntries

MappedRequirement(a) ==
  CASE a = "streak-warrior" -> 7
    [] a = "math-mastery" -> 10
    [] a = "deep-focus" -> 240
    [] a = "consistency-king" -> 20

\* C13: after registerEntry each achievement is unlocked iff it was unlocked
\* before the call or its counter as committed by the call meets its
\* requirement (7, 10, 240, 20); a still-locked achievement has that counter
\* as its progress; unlockedAt is set exactly when unlocked is true.
C13_AchievementUnlock ==
  [][IsCall("registerEntry")
       => \A a \in DOMAIN state.achievements :
            LET before == state.achievements[a]
                after == state'.achievements[a]
                counter == MappedCounter(a, state')
            IN /\ after.requirement = MappedRequirement(a)
               /\ after.unlocked
                    <=> (before.unlocked \/ counter >= MappedRequirement(a))
               /\ ~after.unlocked => after.progress = counter
               /\ after.unlockedAt # Null <=> after.unlocked]_vars

\* the tenth math-tagged day has just unlocked math-mastery
C13_Witness ==
  /\ call.op = "registerEntry"
  /\ state.mathTaggedEntries = 10
  /\ state.achievements["math-mastery"].unlocked
  /\ state.achievements["math-mastery"].unlockedAt = now
  /\ state.achievements["math-mastery"].progress = 10
  /\ state.achievements["deep-focus"].unlocked
  /\ ~state.achievements["consistency-king"].unlocked
  /\ state.achievements["consistency-king"].progress = 10

\* claimQuest has nothing to claim: no such quest, not completed, or claimed
NothingToClaim(s, questId) ==
  \/ questId \notin DOMAIN s.quests
  \/ ~s.quests[questId].completed
  \/ s.quests[questId].claimed

\* C14: claimQuest(id) leaves every field of the state unchanged, and commits
\* nothing, when the quest does not exist, is not completed or is already
\* claimed.
C14_ClaimNoOp ==
  [][(IsCall("claimQuest") /\ NothingToClaim(state, call'.questId))
       => /\ state' = state
          /\ claimQuestCommits(state, call'.questId) = <<>>]_vars

\* a second claim of a quest already claimed
C14_Witness ==
  /\ call.op = "claimQuest"
  /\ call.case = "noop"
  /\ call.questId \in DOMAIN state.quests
  /\ state.quests[call.questId].claimed
  /\ state.xp >= state.quests[call.questId].rewardXP

\* C15: claimQuest(id) on a completed, unclaimed quest commits claimed = TRUE
\* for that quest first, with xp as before, and then xp + rewardXP with the
\* unlocks re-evaluated at the new level; the quest's other fields, the other
\* quests, streak, counters and achievements are unchanged.
C15_ClaimThenAward ==
  [][(IsCall("claimQuest") /\ ~NothingToClaim(state, call'.questId))
       => LET id == call'.questId
              reward == state.quests[id].rewardXP
              commits == claimQuestCommits(state, id)
              flagged == [state EXCEPT !.quests[id].claimed = TRUE]
          IN /\ Len(commits) = 2
             /\ commits[1] = flagged
             /\ commits[2] = state'
             /\ state'.xp = state.xp + reward
             /\ \A u \in DOMAIN state.unlocks :
                  state'.unlocks[u].unlocked
                    <=> \/ state.unlocks[u].unlocked
                        \/ state'.xp \div 100 >= state.unlocks[u].requiredLevel
             /\ state' = [flagged EXCEPT !.xp = state'.xp,
                                         !.unlocks = state'.unlocks]]_vars

\* the reward of a claim has just taken xp across 300, with another quest in
\* progress
C15_Witness ==
  /\ call.op = "claimQuest"
  /\ call.case = "claimed"
  /\ state.quests[call.questId].claimed
  /\ state.xp >= 300
  /\ state.xp - state.quests[call.questId].rewardXP < 300
  /\ state.unlocks["dark-mode"].unlocked
  /\ state.quests["math-tags-5"].progress >= 1
  /\ ~state.quests["math-tags-5"].completed

\* C16: addXP(amount) with amount <= 0 leaves xp, unlocks and every other
\* field unchanged, and commits nothing.
C16_AddXPNoOp ==
  [][(IsCall("addXP") /\ call'.amount <= 0)
       => /\ state' = state
          /\ addXPCommits(state, call'.amount) = <<>>]_vars

\* a negative amount offered to a store that holds xp and an unlock
C16_Witness ==
  /\ call.op = "addXP"
  /\ call.amount < 0
  /\ state.xp >= 300
  /\ state.unlocks["dark-mode"].unlocked

\* C17: addXP(amount) with amount > 0 adds exactly amount to xp and, besides,
\* may only turn feature unlocks from locked to unlocked; streak,
\* longestStreak, lastEntryDate, the counters, achievements, quests and the
\* weekly fields are unchanged.
C17_AddXPFrame ==
  [][(IsCall("addXP") /\ call'.amount > 0)
       => /\ state'.xp = state.xp + call'.amount
          /\ \A u \in DOMAIN state.unlocks :
               /\ state.unlocks[u].unlocked => state'.unlocks[u].unlocked
               /\ state'.unlocks[u]
                    = [state.unlocks[u] EXCEPT
                         !.unlocked = state'.unlocks[u].unlocked]
          /\ state' = [state EXCEPT !.xp = state'.xp,
                                    !.unlocks = state'.unlocks]]_vars

\* addXP(100) has just taken a journal with an entry and quest progress
\* across 300
C17_Witness ==
  /\ call.op = "addXP"
  /\ call.amount = 100
  /\ state.xp >= 300
  /\ state.xp - 100 < 300
  /\ state.unlocks["dark-mode"].unlocked
  /\ state.streak = 1
  /\ state.quests["weekly-entries-3"].progress >= 1

\* C18: for every xp >= 0 the hook derives level = floor(xp/100) (0 below
\* 100) and an xpProgress with current + 100*level = xp, required = 100 and
\* 0 <= current < 100; xp = 150 gives level 1, current 50, required 100,
\* percentage 50.
C18_LevelAndProgress ==
  LET xp == state.xp
      level == calculateLevel(xp)
      xpProgress == getXPProgress(xp)
  IN /\ xp >= 0
     /\ level = xp \div 100
     /\ xp < 100 => level = 0
     /\ xpProgress.current + 100 * level = xp
     /\ xpProgress.required = 100
     /\ 0 <= xpProgress.current
     /\ xpProgress.current < 100
     /\ xp = 150 => /\ level = 1
                    /\ xpProgress.current = 50
                    /\ xpProgress.required = 100
                    /\ xpProgress.percentage = 50

C18_Witness ==
  /\ call.op = "addXP"
  /\ call.amount = 1
  /\ state.xp = 150

\* C19: resetState returns every field to its default: xp, streak,
\* longestStreak, the three totals and the weekly counters 0, lastEntryDate
\* and weekStartDate null, every achievement locked with progress 0 and no
\* unlockedAt, every unlock locked, every quest at progress 0, not completed
\* and not claimed.
C19_ResetToDefaults ==
  [][IsCall("resetState")
       => /\ state'.xp = 0
          /\ calculateLevel(state'.xp) = 0
          /\ state'.streak = 0
          /\ state'.longestStreak = 0
          /\ state'.totalEntries = 0
          /\ state'.totalFocusMinutes = 0
          /\ state'.mathTaggedEntries = 0
          /\ state'.lastEntryDate = Null
          /\ state'.weeklyEntriesCount = 0
          /\ state'.weeklyHighFocusDays = 0
          /\ state'.weekStartDate = Null
          /\ \A a \in DOMAIN state'.achievements :
               /\ ~state'.achievements[a].unlocked
               /\ state'.achievements[a].progress = 0
               /\ state'.achievements[a].unlockedAt = Null
          /\ \A u \in DOMAIN state'.unlocks : ~state'.unlocks[u].unlocked
          /\ \A q \in DOMAIN state'.quests :
               /\ state'.quests[q].progress = 0
               /\ ~state'.quests[q].completed
               /\ ~state'.quests[q].claimed
          /\ DOMAIN state' = DOMAIN state
          /\ DOMAIN state'.achievements = DOMAIN state.achievements
          /\ DOMAIN state'.unlocks = DOMAIN state.unlocks
          /\ DOMAIN state'.quests = DOMAIN state.quests]_vars

C19_Witness ==
  /\ call.op = "resetState"
  /\ call.case = "progressed"
  /\ state.xp = 0
  /\ state.longestStreak = 0
  /\ state.weekStartDate = Null
  /\ now >= TicksPerDay

\* C20: during registerEntry a not yet completed tags quest (math-tags-5,
\* typeValue "math") gains exactly 1 progress iff the entry carries the tag in
\* any letter case and is on a new calendar day relative to the prior entry;
\* otherwise its progress is unchanged.
C20_TagsQuestProgress ==
  [][IsCall("registerEntry")
       => LET quest == state.quests["math-tags-5"]
              counts == /\ CarriesMath(call'.entry)
                        /\ OnNewDay(state.lastEntryDate, call'.entry.date)
          IN (quest.type = "tags" /\ quest.typeValue = "math" /\ ~quest.completed)
               => state'.quests["math-tags-5"].progress
                    = quest.progress + (IF counts THEN 1 ELSE 0)]_vars

\* C21: resetStreak sets streak to 0 and leaves every other field as it was.
C21_ResetStreakFrame ==
  [][IsCall("resetStreak")
       => /\ state'.streak = 0
          /\ state' = [state EXCEPT !.streak = 0]]_vars

C21_Witness ==
  /\ call.op = "resetStreak"
  /\ state.streak = 0
  /\ state.longestStreak = 2
  /\ state.lastEntryDate # Null
  /\ state.totalEntries = 2
  /\ state.xp > 0
  /\ state.weekStartDate # Null

\* C22: the streak check at session start sets streak to 0 and leaves
\* longestStreak and every other field unchanged when the stored lastEntryDate
\* is on neither the current calendar day nor the day before; it changes
\* nothing when lastEntryDate is today, yesterday or null.
C22_PassiveDecay ==
  [][IsCall("mount")
       => LET last == state.lastEntryDate
              decayed == /\ last # Null
                         /\ DayOf(last) # DayOf(now)
                         /\ DayOf(last) # DayOf(now) - 1
              commits == mountStreakCommits(state, now)
          IN /\ decayed => /\ state'.streak = 0
                           /\ state.streak > 0
                                => commits = <<[state EXCEPT !.streak = 0]>>
                           /\ state.streak = 0 => commits = <<>>
             /\ ~decayed => /\ commits = <<>>
                            /\ state'.streak = state.streak
             /\ state'.longestStreak = state.longestStreak
             /\ state'.lastEntryDate = state.lastEntryDate
             /\ state'.xp = state.xp
             /\ state'.totalEntries = state.totalEntries
             /\ state'.totalFocusMinutes = state.totalFocusMinutes
             /\ state'.mathTaggedEntries = state.mathTaggedEntries
             /\ state'.achievements = state.achievements
             /\ state'.unlocks = state.unlocks]_vars

\* a streak of three days found broken at session start
C22_Witness ==
  /\ call.op = "mount"
  /\ call.case = "broken"
  /\ state.streak = 0
  /\ state.longestStreak = 3
  /\ state.lastEntryDate # Null
  /\ DayOf(state.lastEntryDate) < DayOf(now) - 1

\* C23: after a call of resetWeeklyQuests weekStartDate is Monday 00:00 of the
\* week of the current date and a repeated call at the same date changes
\* nothing; a call that finds weekStartDate null or in the current week
\* leaves the quests and both weekly counters unchanged.
C23_WeeklyResetIdempotent ==
  [][IsCall("resetWeeklyQuests")
       => /\ state'.weekStartDate = MondayOf(now)
          /\ state'.weekStartDate % TicksPerDay = 0
          /\ resetWeeklyQuests(state', now) = state'
          /\ (\/ state.weekStartDate = Null
              \/ WeekOf(state.weekStartDate) = WeekOf(now))
               => /\ state'.quests = state.quests
                  /\ state'.weeklyEntriesCount = state.weeklyEntriesCount
                  /\ state'.weeklyHighFocusDays = state.weeklyHighFocusDays]_vars

\* a call within the tracked week, after the week has turned, with weekly
\* progress standing
C23_Witness ==
  /\ call.op = "resetWeeklyQuests"
  /\ ~call.stale
  /\ state.weekStartDate = MondayOf(now)
  /\ state.weekStartDate > 0
  /\ state.weeklyEntriesCount >= 1
  /\ state.quests["weekly-entries-3"].progress >= 1

\* C24: registerEntry called in a later Monday-based week than the stored
\* weekStartDate applies the weekly reset before the entry's quest update:
\* after the call weeklyEntriesCount <= 1, weeklyHighFocusDays <= 1,
\* weekStartDate is this week's Monday, and no resetWeekly quest carries
\* progress, completed or claimed over from the earlier week.
C24_StaleWeekCleared ==
  [][(/\ IsCall("registerEntry")
      /\ state.weekStartDate # Null
      /\ WeekOf(state.weekStartDate) < WeekOf(now))
       => /\ state'.weeklyEntriesCount <= 1
          /\ state'.weeklyHighFocusDays <= 1
          /\ state'.weekStartDate = MondayOf(now)
          /\ \A q \in DOMAIN state'.quests :
               state'.quests[q].resetWeekly
                 => /\ state'.quests[q].progress <= 1
                    /\ ~state'.quests[q].claimed
                    /\ state'.quests[q].completed
                         <=> state'.quests[q].progress >= state'.quests[q].target
                    /\ state'.quests[q].weekStarted = MondayOf(now)]_vars

\* the first entry of a new week, after quest progress in the week before
C24_Witness ==
  /\ call.op = "registerEntry"
  /\ call.stale
  /\ state.weekStartDate = MondayOf(now)
  /\ state.quests["weekly-entries-3"].progress <= 1
  /\ state.quests["weekly-entries-3"].weekStarted = MondayOf(now)
  /\ state.quests["math-tags-5"].progress >= 2

\* a step that resets quest q: resetState, or, for a resetWeekly quest, a call
\* that runs the weekly reset check in a week other than the stored one
ResetsQuest(q) ==
  \/ IsCall("resetState")
  \/ /\ state.quests[q].resetWeekly
     /\ now' = now
     /\ call'.op \in {"resetWeeklyQuests", "registerEntry", "mount"}
     /\ state.weekStartDate # Null
     /\ WeekOf(state.weekStartDate) # WeekOf(now)

\* C25: a quest moves only active -> completed -> claimed: a completed quest
\* keeps its progress and its completed flag, and a claimed quest stays
\* claimed, under every call except a weekly reset of a resetWeekly quest and
\* resetState; a claimed non-weekly quest stays claimed until resetState.
C25_QuestLifecycle ==
  [][\A q \in DOMAIN state.quests :
       ~ResetsQuest(q)
         => /\ state.quests[q].completed
                 => /\ state'.quests[q].completed
                    /\ state'.quests[q].progress = state.quests[q].progress
            /\ state.quests[q].claimed => state'.quests[q].claimed]_vars

\* a claimed non-weekly quest after a weekly reset in a new week
C25_Witness ==
  /\ call.op = "resetWeeklyQuests"
  /\ call.stale
  /\ state.quests["math-tags-5"].claimed
  /\ state.quests["math-tags-5"].completed
  /\ state.quests["math-tags-5"].progress = 5
  /\ state.quests["weekly-entries-3"].progress = 0

\* the derived focus level as claimed: focusLevel if present, else
\* focusMinutes / 6 rounded to the nearest integer, else 5
ClaimedFocusLevel(entry) ==
  IF entry.focusLevel # Missing THEN entry.focusLevel
  ELSE IF entry.focusMinutes # Missing THEN (2 * entry.focusMinutes + 6) \div 12
  ELSE 5

\* C26: updateQuestsOnEntry adds 1 to weeklyHighFocusDays exactly when the
\* entry is on another calendar day than the stored lastEntryDate (or that is
\* null), falls in the current week and has a derived focus level >= 7; a not
\* yet completed weekly focus quest then has progress =
\* min(weeklyHighFocusDays, target).
C26_HighFocusDays ==
  [][IsCall("updateQuestsOnEntry")
       => LET entry == call'.entry
              counts == /\ OnNewDay(state.lastEntryDate, entry.date)
                        /\ WeekOf(entry.date) = WeekOf(now)
                        /\ ClaimedFocusLevel(entry) >= 7
              quest == state.quests["high-focus-2-days"]
          IN /\ state'.weeklyHighFocusDays
                  = state.weeklyHighFocusDays + (IF counts THEN 1 ELSE 0)
             /\ (quest.type = "focus" /\ quest.resetWeekly /\ ~quest.completed)
                  => state'.quests["high-focus-2-days"].progress
                       = Min(state'.weeklyHighFocusDays, quest.target)]_vars

\* 39 minutes (6.5, rounded to 7) has just completed the weekly focus quest
C26_Witness ==
  /\ call.op = "updateQuestsOnEntry"
  /\ call.entry.focusMinutes = 39
  /\ call.entry.focusLevel = Missing
  /\ state.weeklyHighFocusDays = 2
  /\ state.quests["high-focus-2-days"].progress = 2
  /\ state.quests["high-focus-2-days"].completed
  /\ state.weeklyEntriesCount = 3

\* the length of the run of consecutive days of the set that ends on day d
RunEnding(days, d) ==
  CHOOSE k \in 1..Cardinality(days) :
    /\ \A i \in 0..(k - 1) : d - i \in days
    /\ d - k \notin days

LatestDay(days) == CHOOSE d \in days : \A e \in days : e <= d

\* C27: from the initial state, under registerEntry calls with non-decreasing
\* entry dates, streak is the length of the maximal run of consecutive
\* calendar days with an entry that ends on the latest entry's day, and
\* totalEntries is the number of distinct calendar days with an entry.
C27_StreakIsRunLength ==
  /\ state.totalEntries = Cardinality(call.days)
  /\ call.days = {} => state.streak = 0 /\ state.lastEntryDate = Null
  /\ call.days # {}
       => /\ DayOf(state.lastEntryDate) = LatestDay(call.days)
          /\ state.streak = RunEnding(call.days, LatestDay(call.days))

\* entries on days 0, 1, 3, 4 and 5: five days, a run of three
C27_Witness ==
  /\ call.op = "registerEntry"
  /\ call.days = {0, 1, 3, 4, 5}
  /\ state.streak = 3
  /\ state.longestStreak = 3
  /\ state.totalEntries = 5

\* C28: with entries of focusMinutes >= 0, xp is >= 0 in every reachable state
\* and is never lowered by addXP, registerEntry, claimQuest, resetStreak,
\* resetWeeklyQuests or the session-start checks; resetState lowers it to 0.
C28_XPNeverFalls ==
  /\ [](state.xp >= 0)
  /\ [][(now' = now /\ call'.op # "resetState")
          => state'.xp >= state.xp]_vars
  /\ [][IsCall("resetState") => state'.xp = 0]_vars

\* a negative amount offered to a journal with entries and 300 xp from addXP
C28_Witness ==
  /\ call.op = "addXP"
  /\ call.amount < 0
  /\ state.xp > 300
  /\ state.streak >= 1
  /\ state.totalFocusMinutes > 0

\* C29: in every reachable state each resetWeekly "entries" quest has
\* progress = min(weeklyEntriesCount, target) and each resetWeekly "focus"
\* quest has progress = min(weeklyHighFocusDays, target).
C29_WeeklyQuestsFollowCounters ==
  \A q \in DOMAIN state.quests :
    LET quest == state.quests[q]
    IN quest.resetWeekly
         => /\ quest.type = "entries"
                 => quest.progress = Min(state.weeklyEntriesCount, quest.target)
            /\ quest.type = "focus"
                 => quest.progress = Min(state.weeklyHighFocusDays, quest.target)

\* a third high-focus day counted past the focus quest's target of two
C29_Witness ==
  /\ call.op = "updateQuestsOnEntry"
  /\ state.weeklyHighFocusDays = 3
  /\ state.quests["high-focus-2-days"].progress = 2
  /\ state.weeklyEntriesCount = 3
  /\ state.quests["weekly-entries-3"].progress = 3
  /\ state.quests["weekly-entries-3"].claimed

\* C30: between two consecutive resets of a quest (resetState, or the weekly
\* reset of a resetWeekly quest) the xp added by all claimQuest calls for that
\* quest is at most its rewardXP, whatever else is called in between.
C30_RewardPaidOnce ==
  \A q \in DOMAIN DEFAULT_QUESTS :
    /\ call.paid[q] \in {0, DEFAULT_QUESTS[q].rewardXP}
    /\ call.paid[q] <= state.quests[q].rewardXP

\* the entries quest claimed again in the week after it was first claimed
C30_Witness ==
  /\ call.op = "claimQuest"
  /\ call.case = "claimed"
  /\ call.questId = "weekly-entries-3"
  /\ call.paid["weekly-entries-3"] = 50
  /\ state.xp = 100
  /\ state.totalEntries = 0

====
